---- MODULE Spec2Model ----
(***************************************************************************)
(* folklore.dev: the crawl-and-index pipeline.                             *)
(*                                                                         *)
(* The crawl loop is build_index of src/src/index.rs (a main loop that     *)
(* pops the frontier and spawns one task per crawled document); the crawl  *)
(* of one root, the fetch with its retry loop, the link extraction and the *)
(* text extraction are those of src/src/main.rs, whose signatures are the  *)
(* ones index.rs calls; the store is src/src/database.rs.  The sequential  *)
(* build_index of main.rs is the set of behaviours of this model in which  *)
(* every spawned task runs to completion as soon as it is spawned.         *)
(***************************************************************************)
EXTENDS Integers, Sequences, FiniteSets, TLC

VARIABLES
    websites,     \* the configured websites (Config.websites)
    run,          \* number of the current run of the process (1, 2, ...)
    db,           \* the documents table: id -> [body, texts], both nullable
    index,        \* the Index of the current run
    index1,       \* what the Index the first run returned answers (None before that)
    visited,      \* the shared visited set (index.rs:177)
    crawl_stack,  \* the frontier (index.rs:178)
    handles,      \* the tasks build_index spawned (index.rs:185)
    main,         \* the main loop of build_index and the crawl it awaits
    gets,         \* history: URLs an HTTP GET was sent for in this run
    crawled,      \* history: how often each URL was popped and crawled in this run
    hist,         \* history: per canonical URL, what the spawned tasks did in this run
    fst,          \* one call of fetch, taken step by step (FetchSpec)
    passed,       \* history: the (document id, text) pairs index_texts was given
    answer,       \* the query loop: the line read last and what query returned for it
    locks,        \* the three mutexes of build_index: who holds each (LockSpec)
    downloads     \* history: the bodies fetch downloaded and saved in this run, a fetch that failed

vars == <<websites, run, db, index, index1, visited, crawl_stack, handles, main,
          gets, crawled, hist, fst, passed, answer, locks, downloads>>


(***************************************************************************)
(* Bounds.                                                                 *)
(***************************************************************************)
\* The network fails at most this many times in a row for one fetch.
MaxFails == 5
\* The process is run at most this many times over the same store.
MaxRuns == 2
\* The history counters stop counting here.
HistCap == 2

(***************************************************************************)
(* Option<T>: None or Some(x).                                             *)
(***************************************************************************)
None == <<>>
Some(x) == <<x>>
Unwrap(o) == o[1]

EmptyFn == [x \in {} |-> 0]

(***************************************************************************)
(* URLs (the url crate, as far as the crawl uses it).                      *)
(***************************************************************************)
Url(scheme, host, port, path, query, fragment) ==
    [scheme |-> scheme, host |-> host, port |-> port, path |-> path,
     query |-> query, fragment |-> fragment]

Http(host, path) == Url("http", host, 80, path, "", "")

\* Url::origin(): (scheme, host, port)
Origin(u) == <<u.scheme, u.host, u.port>>

\* set_query(None); set_fragment(None)
StripQueryFragment(u) == [u EXCEPT !.query = "", !.fragment = ""]

\* Url::join(href) for an href that Url::parse rejected with
\* RelativeUrlWithoutBase: a path-absolute reference keeps the base's origin,
\* a network-path reference ("//host/path") keeps only the base's scheme.
UrlJoin(base, h) ==
    IF h.host = ""
    THEN Url(base.scheme, base.host, base.port, h.path, h.query, h.fragment)
    ELSE Url(base.scheme, h.host, 80, h.path, h.query, h.fragment)

(***************************************************************************)
(* Documents (select::document::Document): a tree of elements and text     *)
(* nodes.  A string is a TLA+ string, taken character by character.        *)
(***************************************************************************)
Text(text) == [kind |-> "text", name |-> "", text |-> text, children |-> <<>>]
El(name, children) == [kind |-> "el", name |-> name, text |-> "", children |-> children]

\* Node::text(): the text of a text node, the texts of an element's
\* descendants one after the other.
RECURSIVE NodeText(_)
RECURSIVE ChildrenText(_)
NodeText(node) ==
    IF node.kind = "text" THEN node.text ELSE ChildrenText(node.children)
ChildrenText(children) ==
    IF children = <<>> THEN ""
    ELSE NodeText(Head(children)) \o ChildrenText(Tail(children))

\* document.find(Any): every node of the tree.
RECURSIVE FindAny(_)
FindAny(node) ==
    {node} \cup UNION {FindAny(node.children[i]) : i \in 1..Len(node.children)}

(***************************************************************************)
(* The web the crawl runs against: each canonical URL serves one document, *)
(* the hrefs of its anchors and its tree.                                  *)
(***************************************************************************)
Abs(u) == [kind |-> "abs", url |-> u]
Rel(host, path) == [kind |-> "rel", host |-> host, path |-> path,
                    query |-> "", fragment |-> ""]
BadHref == [kind |-> "bad"]
NoHref == [kind |-> "nohref"]

A0 == Http("a", "/")
AX == Http("a", "/x")
AW == Http("a", "/w")
BZ == Http("b", "/z")
C0 == Http("c", "/")
BQ == Http("b", "/q")
AWTop == Url("http", "a", 80, "/w", "", "top")

\* The ending of a URL's string form, for the fixture's paths.
Ending(u) == IF u.path = "/pic.png" THEN ".png" ELSE ""

Pages ==
    (A0 :> [anchors |-> <<Rel("", "/x"),
                          Abs(C0),
                          Abs(Url("http", "a", 80, "/", "q=1", "")),
                          Rel("", "/pic.png"),
                          BadHref, NoHref>>,
            root |-> El("html", <<El("p", <<Text("Hello World")>>)>>)])
 @@ (AX :> [anchors |-> <<Rel("", "/"),
                          Rel("", "/x"),
                          Abs(Url("http", "a", 80, "/w", "", "top"))>>,
            root |-> El("html", <<El("p", <<Text("hello again")>>)>>)])
 @@ (AW :> [anchors |-> <<Rel("b", "/z")>>,
            root |-> El("html", <<El("p", <<Text("World")>>)>>)])
 @@ (BZ :> [anchors |-> <<Rel("", "/q")>>,
            root |-> El("html", <<El("p", <<Text(" other  World\n")>>)>>)])
 @@ (BQ :> [anchors |-> <<>>,
            root |-> El("html", <<El("p", <<Text("other")>>), Text(" ")>>)])

\* One record of the configuration file: lib.rs:19-22 has the url,
\* bin/main.rs:48 reads recursively_crawl as well.
Website(url, recursively_crawl) == [url |-> url, recursively_crawl |-> recursively_crawl]

\* The configured websites (data.toml), one list per configuration: one
\* website; one website given with a fragment and not to be crawled
\* recursively; two websites of one origin, the first linking to the second.
Configs == { <<Website(A0, TRUE)>>,
             <<Website(AWTop, FALSE)>>,
             <<Website(BZ, TRUE), Website(BQ, TRUE)>> }

\* Every id the store can be asked for.
Ids == DOMAIN Pages \cup UNION { {c[i].url : i \in 1..Len(c)} : c \in Configs }

\* A response body is the HTML the server holds for the URL without its query
\* and fragment (a URL it has no page for gets an empty document);
\* Document::from(body) parses it back.
BodyOf(u) == StripQueryFragment(u)
DocumentFrom(body) ==
    IF body \in DOMAIN Pages THEN Pages[body]
    ELSE [anchors |-> <<>>, root |-> El("html", <<>>)]

(***************************************************************************)
(* main.rs: the pure parts of the crawl.                                   *)
(***************************************************************************)
DISALLOWED_ENDINGS ==
    {".pdf", ".png", ".jpg", ".jpeg", ".gif", ".xml", ".rss", ".css", ".js", ".mov"}

link_looks_interesting(link) == Ending(link) \notin DISALLOWED_ENDINGS

\* What one anchor contributes to extract_links_same_domain: no URL or one.
ResolveAnchor(domain, h) ==
    CASE h.kind = "abs" ->
            IF Origin(h.url) = Origin(domain) /\ h.url.path # domain.path
            THEN <<StripQueryFragment(h.url)>>
            ELSE <<>>
      [] h.kind = "rel" -> <<StripQueryFragment(UrlJoin(domain, h))>>
      [] OTHER -> <<>>

RECURSIVE ResolveAnchors(_, _)
ResolveAnchors(domain, anchors) ==
    IF anchors = <<>> THEN <<>>
    ELSE ResolveAnchor(domain, Head(anchors)) \o ResolveAnchors(domain, Tail(anchors))

extract_links_same_domain(domain, document) == ResolveAnchors(domain, document.anchors)

\* The upper-case letters and their lower case.
LowerTable ==
    [A |-> "a", B |-> "b", C |-> "c", D |-> "d", E |-> "e", F |-> "f", G |-> "g",
     H |-> "h", I |-> "i", J |-> "j", K |-> "k", L |-> "l", M |-> "m", N |-> "n",
     O |-> "o", P |-> "p", Q |-> "q", R |-> "r", S |-> "s", T |-> "t", U |-> "u",
     V |-> "v", W |-> "w", X |-> "x", Y |-> "y", Z |-> "z"]

\* str::to_lowercase
RECURSIVE to_lowercase(_)
to_lowercase(w) ==
    IF w = "" THEN ""
    ELSE (IF Head(w) \in DOMAIN LowerTable THEN LowerTable[Head(w)] ELSE Head(w))
         \o to_lowercase(Tail(w))

\* The characters \s matches and split_whitespace splits at.
Whitespace == {" ", "\t", "\n", "\r"}

\* str::split_whitespace, with the token begun so far: the maximal runs of
\* characters that are not whitespace.
RECURSIVE SplitFrom(_, _)
SplitFrom(s, token) ==
    IF s = "" THEN (IF token = "" THEN <<>> ELSE <<token>>)
    ELSE IF Head(s) \in Whitespace
         THEN (IF token = "" THEN <<>> ELSE <<token>>) \o SplitFrom(Tail(s), "")
         ELSE SplitFrom(Tail(s), token \o Head(s))

split_whitespace(s) == SplitFrom(s, "")

canonicalize_ngram(ngram) == [i \in 1..Len(ngram) |-> to_lowercase(ngram[i])]

\* The regex \S matches: the string has a character that is not whitespace.
RECURSIVE has_search_terms(_)
has_search_terms(s) ==
    s # "" /\ (Head(s) \notin Whitespace \/ has_search_terms(Tail(s)))

\* extract_texts(Option<&Document>) -> Option<HashSet<Vec<String>>>: one text
\* for every node whose text has search terms.
extract_texts(document) ==
    IF document = None THEN None
    ELSE Some({canonicalize_ngram(split_whitespace(NodeText(node))) :
                  node \in {n \in FindAny(Unwrap(document).root) :
                                has_search_terms(NodeText(n))}})

(***************************************************************************)
(* database.rs: the documents table.  A row that does not exist reads like *)
(* a row whose two columns are NULL.                                       *)
(***************************************************************************)
EmptyRow == [body |-> None, texts |-> None]
EmptyDb == [id \in Ids |-> EmptyRow]

\* The orders a HashSet can be iterated in: the order depends on the keys
\* of the set's RandomState, which differ from set to set and run to run.
Orders(S) ==
    { o \in [1..Cardinality(S) -> S] : \A i, j \in 1..Cardinality(S) : i # j => o[i] # o[j] }

\* bincode::serialize(&texts): the elements one after the other, in the
\* order the set is iterated in.  The bytes it can give.
serialize(texts) == Orders(texts)
\* bincode::deserialize(&bytes): the elements collected into a HashSet.
deserialize(bytes) == {bytes[i] : i \in 1..Len(bytes)}

\* INSERT OR REPLACE INTO documents (id, extracted_text): the row is replaced,
\* the column the statement does not name is NULL in the new row.  `bytes`
\* is the serialized set.
save_texts(d, document_id, bytes) ==
    [d EXCEPT ![document_id] = [body |-> None, texts |-> Some(bytes)]]

\* INSERT OR REPLACE INTO documents (id, body)
save_document(d, document_id, body) ==
    [d EXCEPT ![document_id] = [body |-> Some(body), texts |-> None]]

\* SELECT extracted_text ... WHERE extracted_text IS NOT NULL AND id = ?1
read_texts(d, document_id) ==
    IF d[document_id].texts = None THEN None
    ELSE Some(deserialize(Unwrap(d[document_id].texts)))

\* SELECT body ... WHERE id = ?1 AND body IS NOT NULL, then Document::from
read_document(d, document_id) ==
    IF d[document_id].body = None THEN None
    ELSE Some(DocumentFrom(Unwrap(d[document_id].body)))

(***************************************************************************)
(* index.rs: the Index.                                                    *)
(***************************************************************************)
EmptyIndex == [unigrams |-> EmptyFn, ngrams |-> EmptyFn,
               document_codes |-> EmptyFn, word_codes |-> EmptyFn]

\* BiMap::len()
BiLen(m) == Cardinality(DOMAIN m)

\* A new word gets the length after the insert as its code.
WordCodeFromOne(idx, word) ==
    IF word \in DOMAIN idx.word_codes
    THEN [idx |-> idx, code |-> idx.word_codes[word]]
    ELSE LET m == idx.word_codes @@ (word :> BiLen(idx.word_codes) + 1)
         IN  [idx |-> [idx EXCEPT !.word_codes = m], code |-> BiLen(m)]

\* Both return the index after the call and the code.
get_or_generate_word_code(idx, word) ==
    IF word \in DOMAIN idx.word_codes
    THEN [idx |-> idx, code |-> idx.word_codes[word]]
    ELSE LET m == idx.word_codes @@ (word :> BiLen(idx.word_codes))
         IN  [idx |-> [idx EXCEPT !.word_codes = m], code |-> BiLen(m) - 1]

\* A new document's code is returned as the length after the insert.
DocumentCodeIsLen(idx, document_id) ==
    IF document_id \in DOMAIN idx.document_codes
    THEN [idx |-> idx, code |-> idx.document_codes[document_id]]
    ELSE LET m == idx.document_codes @@ (document_id :> BiLen(idx.document_codes))
         IN  [idx |-> [idx EXCEPT !.document_codes = m], code |-> BiLen(m)]

get_or_generate_document_code(idx, document_id) ==
    IF document_id \in DOMAIN idx.document_codes
    THEN [idx |-> idx, code |-> idx.document_codes[document_id]]
    ELSE LET m == idx.document_codes @@ (document_id :> BiLen(idx.document_codes))
         IN  [idx |-> [idx EXCEPT !.document_codes = m], code |-> BiLen(m) - 1]

\* The posting of a key that is present is replaced.
PostReplaces(postings, key, document_code) ==
    IF key \in DOMAIN postings
    THEN [postings EXCEPT ![key] = {document_code}]
    ELSE postings @@ (key :> {document_code})

\* The posting of key gets document_code added (index.rs:84-90, 99-108).
Post(postings, key, document_code) ==
    IF key \in DOMAIN postings
    THEN [postings EXCEPT ![key] = @ \cup {document_code}]
    ELSE postings @@ (key :> {document_code})

insert_unigram(idx, unigram, document_code) ==
    LET g == get_or_generate_word_code(idx, unigram)
    IN  [g.idx EXCEPT !.unigrams = Post(@, g.code, document_code)]

insert_ngram(idx, ngram, document_code) ==
    LET g1 == get_or_generate_word_code(idx, ngram[1])
        g2 == get_or_generate_word_code(g1.idx, ngram[2])
    IN  [g2.idx EXCEPT !.ngrams = Post(@, <<g1.code, g2.code>>, document_code)]

RECURSIVE InsertUnigrams(_, _, _)
InsertUnigrams(idx, ngram, document_code) ==
    IF ngram = <<>> THEN idx
    ELSE InsertUnigrams(insert_unigram(idx, Head(ngram), document_code),
                        Tail(ngram), document_code)

\* tuple_windows::<(_, _)>()
RECURSIVE InsertBigrams(_, _, _)
InsertBigrams(idx, ngram, document_code) ==
    IF Len(ngram) < 2 THEN idx
    ELSE InsertBigrams(insert_ngram(idx, <<ngram[1], ngram[2]>>, document_code),
                       Tail(ngram), document_code)

RECURSIVE IndexNgrams(_, _, _)
IndexNgrams(idx, ngrams, document_code) ==
    IF ngrams = <<>> THEN idx
    ELSE IndexNgrams(
            InsertBigrams(InsertUnigrams(idx, Head(ngrams), document_code),
                          Head(ngrams), document_code),
            Tail(ngrams), document_code)

\* index_texts, with the order in which the HashSet hands out its elements.
index_texts(idx, document_id, order) ==
    LET g == get_or_generate_document_code(idx, document_id)
    IN  IndexNgrams(g.idx, order, g.code)

(***************************************************************************)
(* main.rs: fetch.  After a cache miss the first send and the retry loop   *)
(* touch nothing but the network; `fails` is the number of sends in a row  *)
(* the network still fails.  The log holds every send ("get") and every    *)
(* thread::sleep with its milliseconds.  `readable` says whether the body  *)
(* of the response, once one arrives, can be read (resp.text() is Ok).     *)
(***************************************************************************)
BACKOFF_MS == 512
MAX_ATTEMPT == 4

Get == <<"get", 0>>
Sleep(ms) == <<"sleep", ms>>

FetchEntered(fails, readable) ==
    [pc |-> "send", attempt |-> 0, fails |-> fails, readable |-> readable,
     log |-> <<>>, doc |-> FALSE]

\* The sleep taken from the attempt counter before its increment.
BackoffBeforeIncrement(attempt) == (attempt - 1) * BACKOFF_MS

\* The sleep of one retry, from the attempt counter after its increment.
BackoffMillis(attempt) == attempt * BACKOFF_MS

\* The loop's condition.
MayRetry(attempt) == attempt < MAX_ATTEMPT

\* resp.text().await.unwrap() of main.rs:387 and 398: the body, or a panic.
BodyRead(f) ==
    IF f.readable THEN [f EXCEPT !.pc = "done", !.doc = TRUE]
    ELSE [f EXCEPT !.pc = "panicked", !.doc = FALSE]

\* client.get(url).send() of main.rs:385
FirstSend(f) ==
    IF f.fails = 0
    THEN BodyRead([f EXCEPT !.log = Append(@, Get)])
    ELSE [f EXCEPT !.pc = "retry", !.log = Append(@, Get), !.fails = @ - 1]

\* One test of `while attempt < 4` and, when it holds, one turn of the loop.
RetryTurn(f) ==
    IF MayRetry(f.attempt)
    THEN LET a == f.attempt + 1
             l == f.log \o <<Sleep(BackoffMillis(a)), Get>>
         IN  IF f.fails = 0
             THEN BodyRead([f EXCEPT !.attempt = a, !.log = l])
             ELSE [f EXCEPT !.attempt = a, !.log = l, !.fails = @ - 1]
    ELSE [f EXCEPT !.pc = "done", !.doc = FALSE]

FetchStep(f) == IF f.pc = "send" THEN FirstSend(f) ELSE RetryTurn(f)

RECURSIVE FetchRun(_)
FetchRun(f) == IF f.pc \in {"done", "panicked"} THEN f ELSE FetchRun(FetchStep(f))

\* How the network part of fetch ends: pc "done" with doc saying whether
\* there is a document, or pc "panicked".
FetchOutcome(fails, readable) == FetchRun(FetchEntered(fails, readable))

(***************************************************************************)
(* The crawl: build_index of index.rs around crawl of main.rs.             *)
(***************************************************************************)
CanonIds == {StripQueryFragment(u) : u \in Ids}

NoHist == [insert |-> 0, dup |-> 0, save |-> 0, push |-> 0, index |-> 0,
           fresh |-> {}, stale |-> {}, pushflags |-> {}]
Counted(n) == IF n < HistCap THEN n + 1 ELSE n
\* The URLs fetch has downloaded and saved a body for in this run, and
\* whether a fetch ended without a body (every send failed, or the body
\* could not be read).
NoDownload == [saved |-> {}, failed |-> FALSE]

\* A frontier entry.  index.rs:182 and 229 build (url, visited handle),
\* bin/main.rs:46-50 and 86 (url, recursively_crawl, visited handle); the
\* handle is in every entry the one set of index.rs:177 (bin/main.rs:39), the
\* variable visited.  seed is history: the configured website the entry
\* descends from.
Entry(url, recursive, seed) == [url |-> url, recursive |-> recursive, seed |-> seed]

\* index.rs:180-183, bin/main.rs:42-52: one entry per configured website.
SeedEntries(ws) ==
    [i \in 1..Len(ws) |-> Entry(ws[i].url, ws[i].recursively_crawl, i)]

MainIdle(pc) == [pc |-> pc, root |-> None, recursive |-> TRUE, seed |-> 0,
                 documents |-> <<>>, urls |-> <<>>, lhandles |-> <<>>, panic |-> ""]

\* The main task has panicked at the given place of the source.
Panicked(at) == [MainIdle("panicked") EXCEPT !.panic = at, !.root = main.root]

\* The mutexes of build_index (index.rs:170, 177, 178) and who can hold them:
\* the main loop (0) and the spawned tasks (their place in handles).
Mutexes == {"crawl_stack", "visited", "index"}
Free == -1
MainLoop == 0
AllFree == [m \in Mutexes |-> Free]

FetchIdle == [url |-> None,
              f |-> [pc |-> "idle", attempt |-> 0, fails |-> 0, readable |-> TRUE,
                     log |-> <<>>, doc |-> FALSE]]

\* A task that ran to its end, and one that panicked.
Finished == [pc |-> "done"]
TaskPanicked(at) == [pc |-> "panicked", panic |-> at]

\* The state build_index starts a run in: an empty Index and visited set, the
\* frontier holding the configured websites.
RunStarts ==
    /\ index = EmptyIndex
    /\ visited = {}
    /\ crawl_stack = SeedEntries(websites)
    /\ handles = <<>>
    /\ main = MainIdle("pop")
    /\ gets = {}
    /\ crawled = [u \in Ids |-> 0]
    /\ hist = [u \in CanonIds |-> NoHist]
    /\ passed = {}
    /\ answer = None
    /\ downloads = NoDownload

Init ==
    /\ run = 1
    /\ db = EmptyDb
    /\ index1 = None
    /\ fst = FetchIdle
    /\ locks = AllFree
    /\ websites \in Configs
    /\ RunStarts

\* index.rs:188-193: pop the frontier; leave the loop when it is empty.
Pop ==
    /\ main.pc = "pop"
    /\ IF crawl_stack = <<>>
       THEN /\ main' = MainIdle("join")
            /\ UNCHANGED <<crawl_stack, crawled>>
       ELSE LET crawl_envelope == crawl_stack[Len(crawl_stack)]
            IN  /\ crawl_stack' = SubSeq(crawl_stack, 1, Len(crawl_stack) - 1)
                /\ main' = [MainIdle("root_read") EXCEPT
                                !.root = Some(crawl_envelope.url),
                                !.recursive = crawl_envelope.recursive,
                                !.seed = crawl_envelope.seed]
                /\ crawled' = [crawled EXCEPT ![crawl_envelope.url] = Counted(@)]
    /\ UNCHANGED <<websites, run, db, index, index1, visited, handles, gets, hist, fst,
                   passed, answer, locks, downloads>>

\* main.rs:278-281: the root's texts go first into documents; the links are
\* taken from the root document, unwrapped: without a root document the
\* unwrap panics.
RootFetched(root_document) ==
    IF root_document = None
    THEN Panicked("main.rs:281")
    ELSE [main EXCEPT !.pc = "links",
                      !.documents = << <<extract_texts(root_document), Unwrap(main.root)>> >>,
                      !.urls = extract_links_same_domain(Unwrap(main.root),
                                                         Unwrap(root_document))]

\* main.rs:381-383, for the root: the body from the store, when it has one.
RootRead ==
    /\ main.pc = "root_read"
    /\ LET document == read_document(db, Unwrap(main.root))
       IN  main' = IF document = None THEN [main EXCEPT !.pc = "root_net"]
                   ELSE RootFetched(document)
    /\ UNCHANGED <<websites, run, db, index, index1, visited, crawl_stack, handles,
                   gets, crawled, hist, fst, passed, answer, locks, downloads>>

\* main.rs:385-412, for the root: the sends, the read of the body and
\* save_document.
RootNet ==
    /\ main.pc = "root_net"
    /\ \E fails \in 0..MaxFails, readable \in BOOLEAN :
         LET url == Unwrap(main.root)
             r == FetchOutcome(fails, readable)
         IN
         /\ gets' = gets \cup {url}
         /\ downloads' = IF r.pc = "done" /\ r.doc
                         THEN [downloads EXCEPT !.saved = @ \cup {url}]
                         ELSE [downloads EXCEPT !.failed = TRUE]
         /\ CASE r.pc = "panicked" ->
                    /\ db' = db
                    /\ main' = Panicked("main.rs:387")
              [] r.pc = "done" /\ r.doc ->
                    /\ db' = save_document(db, url, BodyOf(url))
                    /\ main' = RootFetched(Some(DocumentFrom(BodyOf(url))))
              [] OTHER ->
                    /\ db' = db
                    /\ main' = RootFetched(None)
    /\ UNCHANGED <<websites, run, index, index1, visited, crawl_stack, handles,
                   crawled, hist, fst, passed, answer, locks>>

\* main.rs:284-287: the next link, filtered; after the last link the crawl
\* goes on to await its handles.
LinkFilter ==
    /\ main.pc = "links"
    /\ IF main.urls = <<>>
       THEN main' = [main EXCEPT !.pc = "await"]
       ELSE LET l == Head(main.urls)
            IN  IF link_looks_interesting(l) /\ l \notin visited
                THEN main' = [main EXCEPT !.pc = "link_texts"]
                ELSE main' = [main EXCEPT !.urls = Tail(@)]
    /\ UNCHANGED <<websites, run, db, index, index1, visited, crawl_stack, handles,
                   gets, crawled, hist, fst, passed, answer, locks, downloads>>

\* main.rs:294: the milliseconds slept before a link is fetched.
POLITENESS_MS == 64

\* A stand-in for LinkTask: the task is spawned without the sleep.
LinkTaskUnthrottled(l, cached_texts) ==
    IF cached_texts # None
    THEN [pc |-> "done", url |-> l, texts |-> cached_texts, panic |-> "",
          slept |-> 0, fetched |-> FALSE]
    ELSE [pc |-> "read", url |-> l, texts |-> None, panic |-> "",
          slept |-> 0, fetched |-> FALSE]
\* main.rs:293-308: without cached texts the thread sleeps, then the task
\* that fetches the link is spawned; with cached texts the task spawned
\* returns them.  slept and fetched are history: the milliseconds slept
\* before the spawn, and whether the task has called fetch.
LinkTask(l, cached_texts) ==
    IF cached_texts # None
    THEN [pc |-> "done", url |-> l, texts |-> cached_texts, panic |-> "",
          slept |-> 0, fetched |-> FALSE]
    ELSE [pc |-> "read", url |-> l, texts |-> None, panic |-> "",
          slept |-> POLITENESS_MS, fetched |-> FALSE]

\* main.rs:288-308: the link's cached texts are read and its task spawned.
LinkTexts ==
    /\ main.pc = "link_texts"
    /\ LET l == Head(main.urls)
           cached_texts == read_texts(db, l)
       IN  main' = [main EXCEPT !.pc = "links", !.urls = Tail(@),
                                !.lhandles = Append(@, LinkTask(l, cached_texts))]
    /\ UNCHANGED <<websites, run, db, index, index1, visited, crawl_stack, handles,
                   gets, crawled, hist, fst, passed, answer, locks, downloads>>

\* main.rs:304 and 381-383, in the link's task: read_document.
LinkRead(i) ==
    /\ i \in 1..Len(main.lhandles)
    /\ main.lhandles[i].pc = "read"
    /\ LET document == read_document(db, main.lhandles[i].url)
       IN  main' = IF document = None
                   THEN [main EXCEPT !.lhandles[i].pc = "net",
                                     !.lhandles[i].fetched = TRUE]
                   ELSE [main EXCEPT !.lhandles[i].pc = "done",
                                     !.lhandles[i].fetched = TRUE,
                                     !.lhandles[i].texts = extract_texts(document)]
    /\ UNCHANGED <<websites, run, db, index, index1, visited, crawl_stack, handles,
                   gets, crawled, hist, fst, passed, answer, locks, downloads>>

\* main.rs:304 and 385-412, in the link's task: the sends, the read of the
\* body and save_document.
LinkNet(i) ==
    /\ i \in 1..Len(main.lhandles)
    /\ main.lhandles[i].pc = "net"
    /\ \E fails \in 0..MaxFails, readable \in BOOLEAN :
         LET url == main.lhandles[i].url
             r == FetchOutcome(fails, readable)
         IN
         /\ gets' = gets \cup {url}
         /\ downloads' = IF r.pc = "done" /\ r.doc
                         THEN [downloads EXCEPT !.saved = @ \cup {url}]
                         ELSE [downloads EXCEPT !.failed = TRUE]
         /\ CASE r.pc = "panicked" ->
                    /\ db' = db
                    /\ main' = [main EXCEPT !.lhandles[i].pc = "panicked",
                                            !.lhandles[i].panic = "main.rs:387"]
              [] r.pc = "done" /\ r.doc ->
                    /\ db' = save_document(db, url, BodyOf(url))
                    /\ main' = [main EXCEPT
                           !.lhandles[i].pc = "done",
                           !.lhandles[i].texts =
                               extract_texts(Some(DocumentFrom(BodyOf(url))))]
              [] OTHER ->
                    /\ db' = db
                    /\ main' = [main EXCEPT !.lhandles[i].pc = "done",
                                            !.lhandles[i].texts = extract_texts(None)]
    /\ UNCHANGED <<websites, run, index, index1, visited, crawl_stack, handles,
                   crawled, hist, fst, passed, answer, locks>>

\* The documents crawl returns: the root's, then one per handle.
CrawlResult ==
    main.documents \o
    [i \in 1..Len(main.lhandles) |-> <<main.lhandles[i].texts, main.lhandles[i].url>>]

\* index.rs:211-213: a task is spawned for a document that has texts; it
\* takes the crawl envelope with it.
RECURSIVE Spawned(_, _)
Spawned(documents, crawl_envelope) ==
    IF documents = <<>> THEN <<>>
    ELSE LET d == Head(documents)
         IN  (IF d[1] # None
              THEN << [pc |-> "insert", id |-> d[2], texts |-> Unwrap(d[1]),
                       url |-> crawl_envelope.url,
                       recursive |-> crawl_envelope.recursive,
                       seed |-> crawl_envelope.seed] >>
              ELSE <<>>)
             \o Spawned(Tail(documents), crawl_envelope)

\* main.rs:311-315 and index.rs:197-240: crawl has awaited its handles and
\* returns; build_index spawns its tasks and goes back to pop.
CrawlReturns ==
    /\ main.pc = "await"
    /\ \A i \in 1..Len(main.lhandles) : main.lhandles[i].pc = "done"
    /\ handles' = handles \o
                  Spawned(CrawlResult, Entry(Unwrap(main.root), main.recursive, main.seed))
    /\ main' = MainIdle("pop")
    /\ UNCHANGED <<websites, run, db, index, index1, visited, crawl_stack,
                   gets, crawled, hist, fst, passed, answer, locks, downloads>>

\* main.rs:311-313: handle.await.unwrap() on the first handle whose task
\* panicked, the handles before it awaited.
AwaitPanics ==
    /\ main.pc = "await"
    /\ \E i \in 1..Len(main.lhandles) :
          /\ main.lhandles[i].pc = "panicked"
          /\ \A j \in 1..(i - 1) : main.lhandles[j].pc = "done"
    /\ main' = Panicked("main.rs:312")
    /\ UNCHANGED <<websites, run, db, index, index1, visited, crawl_stack, handles,
                   gets, crawled, hist, fst, passed, answer, locks, downloads>>

(***************************************************************************)
(* index.rs:213-236: the task spawned for one document of a crawl.         *)
(***************************************************************************)
\* An insert that reports every value as new.
HashSetInsertAlwaysNew(set, value) == [set |-> set \cup {value}, fresh |-> TRUE]

\* HashSet::insert: the set afterwards, and whether the value was new.
HashSetInsert(set, value) == [set |-> set \cup {value}, fresh |-> value \notin set]

\* No guard: every origin passes.
AnyOrigin(visited_url, url) == TRUE

\* index.rs:224, the guard against traversing to other origins.
SameOrigin(visited_url, url) == Origin(visited_url) = Origin(url)

\* index.rs:214-216
VisitedUrl(id) == StripQueryFragment(id)

\* index.rs:217: insert into the visited set, under its lock.
TaskInsert(i) ==
    /\ i \in 1..Len(handles)
    /\ handles[i].pc = "insert"
    /\ LET visited_url == VisitedUrl(handles[i].id)
           r == HashSetInsert(visited, visited_url)
       IN  /\ visited' = r.set
           /\ IF r.fresh
              THEN /\ handles' = [handles EXCEPT ![i].pc = "save"]
                   /\ hist' = [hist EXCEPT ![visited_url].insert = Counted(@),
                                           ![visited_url].fresh = @ \cup {handles[i].seed}]
              ELSE /\ handles' = [handles EXCEPT ![i] = Finished]
                   /\ hist' = [hist EXCEPT ![visited_url].dup = Counted(@),
                                           ![visited_url].stale = @ \cup {handles[i].seed}]
    /\ UNCHANGED <<websites, run, db, index, index1, crawl_stack, main, gets, crawled, fst,
                   passed, answer, locks, downloads>>

\* index.rs:219-224: save_texts, then the origin guard.
TaskSave(i) ==
    /\ i \in 1..Len(handles)
    /\ handles[i].pc = "save"
    /\ LET t == handles[i]
           visited_url == VisitedUrl(t.id)
       IN  /\ \E bytes \in serialize(t.texts) : db' = save_texts(db, t.id, bytes)
           /\ hist' = [hist EXCEPT ![visited_url].save = Counted(@)]
           /\ handles' = IF SameOrigin(visited_url, t.url)
                         THEN [handles EXCEPT ![i].pc = "push"]
                         ELSE [handles EXCEPT ![i] = Finished]
    /\ UNCHANGED <<websites, run, index, index1, visited, crawl_stack, main, gets, crawled,
                   fst, passed, answer, locks, downloads>>

\* index.rs:226-229, bin/main.rs:83-86: push onto the frontier, under its
\* lock; the entry pushed is recursive whatever the task's own entry was.
TaskPush(i) ==
    /\ i \in 1..Len(handles)
    /\ handles[i].pc = "push"
    /\ LET visited_url == VisitedUrl(handles[i].id)
       IN  /\ crawl_stack' = Append(crawl_stack, Entry(visited_url, TRUE, handles[i].seed))
           /\ hist' = [hist EXCEPT ![visited_url].push = Counted(@),
                                   ![visited_url].pushflags = @ \cup {handles[i].recursive}]
    /\ handles' = [handles EXCEPT ![i].pc = "index"]
    /\ UNCHANGED <<websites, run, db, index, index1, visited, main, gets, crawled, fst,
                   passed, answer, locks, downloads>>

\* index.rs:232: index_texts, under the Index's lock.
TaskIndex(i) ==
    /\ i \in 1..Len(handles)
    /\ handles[i].pc = "index"
    /\ \E order \in Orders(handles[i].texts) :
         index' = index_texts(index, handles[i].id, order)
    /\ passed' = passed \cup {<<handles[i].id, n>> : n \in handles[i].texts}
    /\ UNCHANGED <<answer, locks, downloads>>
    /\ hist' = [hist EXCEPT ![VisitedUrl(handles[i].id)].index = Counted(@)]
    /\ handles' = [handles EXCEPT ![i] = Finished]
    /\ UNCHANGED <<websites, run, db, index1, visited, crawl_stack, main, gets, crawled, fst>>

\* index.rs:243-245: join_all(handles), which a task that panicked does not
\* stop; then the Index is returned.
JoinAll ==
    /\ main.pc = "join"
    /\ \A i \in 1..Len(handles) : handles[i].pc \in {"done", "panicked"}
    /\ main' = MainIdle("returned")
    /\ UNCHANGED <<websites, run, db, index, index1, visited, crawl_stack, handles,
                   gets, crawled, hist, fst, passed, answer, locks, downloads>>

\* pass_page_results (index.rs:133-150): the URLs of a posting.
PageResults(idx, page_results) ==
    {d \in DOMAIN idx.document_codes : idx.document_codes[d] \in page_results}

\* What an Index answers, whatever the codes: its documents, and the URLs of
\* each word's and each bigram's posting.
Answers(idx) ==
    LET word == [c \in {idx.word_codes[w] : w \in DOMAIN idx.word_codes} |->
                    CHOOSE w \in DOMAIN idx.word_codes : idx.word_codes[w] = c]
    IN  [documents |-> DOMAIN idx.document_codes,
         unigrams |-> {<<word[c], PageResults(idx, idx.unigrams[c])>> :
                          c \in DOMAIN idx.unigrams},
         ngrams |-> {<<word[g[1]], word[g[2]], PageResults(idx, idx.ngrams[g])>> :
                          g \in DOMAIN idx.ngrams}]

\* The process is started again over the store the run before left: the same
\* configuration, a new Index, visited set and frontier.
Restart ==
    /\ main.pc = "returned"
    /\ run < MaxRuns
    /\ run' = run + 1
    /\ index1' = IF run = 1 THEN Some(Answers(index)) ELSE index1
    /\ index' = EmptyIndex
    /\ visited' = {}
    /\ crawl_stack' = SeedEntries(websites)
    /\ handles' = <<>>
    /\ main' = MainIdle("pop")
    /\ gets' = {}
    /\ crawled' = [u \in Ids |-> 0]
    /\ hist' = [u \in CanonIds |-> NoHist]
    /\ passed' = {}
    /\ downloads' = NoDownload
    /\ UNCHANGED <<answer, locks>>
    /\ UNCHANGED <<websites, db, fst>>

Next ==
    \/ Pop
    \/ RootRead
    \/ RootNet
    \/ LinkFilter
    \/ LinkTexts
    \/ \E i \in 1..Len(main.lhandles) : LinkRead(i)
    \/ \E i \in 1..Len(main.lhandles) : LinkNet(i)
    \/ CrawlReturns
    \/ AwaitPanics
    \/ \E i \in 1..Len(handles) : TaskInsert(i)
    \/ \E i \in 1..Len(handles) : TaskSave(i)
    \/ \E i \in 1..Len(handles) : TaskPush(i)
    \/ \E i \in 1..Len(handles) : TaskIndex(i)
    \/ JoinAll

\* One run of build_index.
Spec == Init /\ [][Next]_vars

\* Runs of the process, one after the other, over the same store.
RerunNext == Next \/ Restart

RerunSpec == Init /\ [][RerunNext]_vars

(***************************************************************************)
(* The locks of build_index, taken and dropped step by step.  A guard is   *)
(* a temporary of the statement that locks (index.rs:226-229, 232), of the *)
(* condition of the `if` (index.rs:217), or is dropped by hand             *)
(* (index.rs:188-190): it is dropped when that statement or condition      *)
(* ends.  crawl reads the visited set through a plain reference            *)
(* (main.rs:273, 286) and takes no lock.                                   *)
(***************************************************************************)
\* Where the main loop or a task is.
PcOf(who) == IF who = MainLoop THEN main.pc ELSE handles[who].pc

\* The mutex the step at a place locks, "" when it locks none:
\* index.rs:188, 217, 226-228, 232.
Needs(who) ==
    IF who = MainLoop
    THEN (IF main.pc = "pop" THEN "crawl_stack" ELSE "")
    ELSE CASE handles[who].pc = "insert" -> "visited"
           [] handles[who].pc = "push" -> "crawl_stack"
           [] handles[who].pc = "index" -> "index"
           [] OTHER -> ""

HeldBy(who) == {m \in Mutexes : locks[m] = who}

\* A stand-in for LiveGuards: the guard of the visited set lives to the end
\* of the block of the `if`, as the guard of an `if let` would.
LiveGuardsThroughBlock(pc) == IF pc \in {"save", "push", "index"} THEN {"visited"} ELSE {}
\* The guards taken at earlier places that are still alive at a place:
\* none, every guard is dropped where it was taken.
LiveGuards(pc) == {}

\* The main loop or the task is in its call of Mutex::lock: the guards of
\* earlier statements have been dropped by then.
AtLock(who) ==
    /\ Needs(who) # ""
    /\ locks[Needs(who)] # who
    /\ HeldBy(who) = LiveGuards(PcOf(who))

\* Mutex::lock returns: the mutex is taken when it is free.
Lock(who) ==
    /\ AtLock(who)
    /\ locks[Needs(who)] = Free
    /\ locks' = [locks EXCEPT ![Needs(who)] = who]
    /\ UNCHANGED <<websites, run, db, index, index1, visited, crawl_stack, handles, main,
                   gets, crawled, hist, fst, passed, answer, downloads>>

\* The guard is dropped: the step it was taken for is done and it does not
\* live on.
Unlock(who, m) ==
    /\ locks[m] = who
    /\ m # Needs(who)
    /\ m \notin LiveGuards(PcOf(who))
    /\ locks' = [locks EXCEPT ![m] = Free]
    /\ UNCHANGED <<websites, run, db, index, index1, visited, crawl_stack, handles, main,
                   gets, crawled, hist, fst, passed, answer, downloads>>

\* A step is taken with its mutex held, when it locks one, and with no
\* guard that should have been dropped before it.
Holding(who) ==
    /\ Needs(who) # "" => locks[Needs(who)] = who
    /\ HeldBy(who) \subseteq LiveGuards(PcOf(who)) \cup {Needs(who)}

LockNext ==
    \/ \E who \in 0..Len(handles) : Lock(who)
    \/ \E who \in 0..Len(handles), m \in Mutexes : Unlock(who, m)
    \/ Holding(MainLoop) /\ Pop
    \/ Holding(MainLoop) /\ RootRead
    \/ Holding(MainLoop) /\ RootNet
    \/ Holding(MainLoop) /\ LinkFilter
    \/ Holding(MainLoop) /\ LinkTexts
    \/ \E i \in 1..Len(main.lhandles) : LinkRead(i)
    \/ \E i \in 1..Len(main.lhandles) : LinkNet(i)
    \/ Holding(MainLoop) /\ CrawlReturns
    \/ Holding(MainLoop) /\ AwaitPanics
    \/ \E i \in 1..Len(handles) : Holding(i) /\ TaskInsert(i)
    \/ \E i \in 1..Len(handles) : Holding(i) /\ TaskSave(i)
    \/ \E i \in 1..Len(handles) : Holding(i) /\ TaskPush(i)
    \/ \E i \in 1..Len(handles) : Holding(i) /\ TaskIndex(i)
    \/ Holding(MainLoop) /\ JoinAll

\* Two websites, so that tasks of one crawl run while the next crawl does.
LockInit == Init /\ websites = <<Website(BZ, TRUE), Website(BQ, TRUE)>>

LockSpec == LockInit /\ [][LockNext]_vars

(***************************************************************************)
(* A store that can fail.  Each operation of database.rs takes a           *)
(* connection with db.get().expect(..); the reads expect() their query,    *)
(* the saves return the error, which fetch expect()s (main.rs:388, 399)    *)
(* and the task unwrap()s (index.rs:220).                                  *)
(***************************************************************************)
\* database.rs:107-123: read_document fails, in the fetch of the root or in
\* a link's task.
ReadDocumentFails ==
    /\ \/ /\ main.pc = "root_read"
          /\ main' = Panicked("database.rs:123")
       \/ \E i \in 1..Len(main.lhandles) :
             /\ main.lhandles[i].pc = "read"
             /\ main' = [main EXCEPT !.lhandles[i].pc = "panicked",
                                     !.lhandles[i].panic = "database.rs:123"]
    /\ UNCHANGED <<websites, run, db, index, index1, visited, crawl_stack, handles,
                   gets, crawled, hist, fst, passed, answer, locks, downloads>>

\* database.rs:64-79 under main.rs:388 and 399: save_document fails after a
\* response was read.
SaveDocumentFails ==
    /\ \E fails \in 0..MaxFails :
         LET r == FetchOutcome(fails, TRUE) IN
         /\ r.pc = "done" /\ r.doc
         /\ \/ /\ main.pc = "root_net"
               /\ gets' = gets \cup {Unwrap(main.root)}
               /\ main' = Panicked("main.rs:388")
            \/ \E i \in 1..Len(main.lhandles) :
                  /\ main.lhandles[i].pc = "net"
                  /\ gets' = gets \cup {main.lhandles[i].url}
                  /\ main' = [main EXCEPT !.lhandles[i].pc = "panicked",
                                          !.lhandles[i].panic = "main.rs:388"]
    /\ UNCHANGED <<websites, run, db, index, index1, visited, crawl_stack, handles,
                   crawled, hist, fst, passed, answer, locks, downloads>>

\* database.rs:82-98 under main.rs:289: read_texts fails in crawl.
ReadTextsFails ==
    /\ main.pc = "link_texts"
    /\ main' = Panicked("database.rs:98")
    /\ UNCHANGED <<websites, run, db, index, index1, visited, crawl_stack, handles,
                   gets, crawled, hist, fst, passed, answer, locks, downloads>>

\* database.rs:46-61 under index.rs:220: save_texts fails in a task, after
\* the task put its URL into the visited set.
SaveTextsFails(i) ==
    /\ i \in 1..Len(handles)
    /\ handles[i].pc = "save"
    /\ handles' = [handles EXCEPT ![i] = TaskPanicked("index.rs:220")]
    /\ UNCHANGED <<websites, run, db, index, index1, visited, crawl_stack, main,
                   gets, crawled, hist, fst, passed, answer, locks, downloads>>

StoreFaultNext ==
    \/ Next
    \/ ReadDocumentFails
    \/ SaveDocumentFails
    \/ ReadTextsFails
    \/ \E i \in 1..Len(handles) : SaveTextsFails(i)

\* One run of build_index over a store that can fail.
StoreFaultSpec == Init /\ [][StoreFaultNext]_vars

\* The places where a failure of the store is turned into a panic.
StorePanics == {"database.rs:123", "database.rs:98", "main.rs:388", "index.rs:220"}

(***************************************************************************)
(* One call of fetch after the other, each taken send by send.             *)
(***************************************************************************)
\* main.rs:381-383: fetch is entered; a cached body is returned at once.
FetchCall(url, fails, readable) ==
    /\ fst.f.pc \in {"idle", "done", "panicked"}
    /\ fst' = [url |-> Some(url),
               f |-> IF read_document(db, url) # None
                     THEN [FetchEntered(0, TRUE) EXCEPT !.pc = "done", !.doc = TRUE]
                     ELSE FetchEntered(fails, readable)]
    /\ UNCHANGED <<websites, run, db, index, index1, visited, crawl_stack, handles, main,
                   gets, crawled, hist, passed, answer, locks, downloads>>

\* main.rs:385-412: the first send or one turn of the retry loop; a response
\* is saved with save_document.
FetchAdvance ==
    /\ fst.f.pc \in {"send", "retry"}
    /\ LET g == FetchStep(fst.f)
       IN  /\ fst' = [fst EXCEPT !.f = g]
           /\ db' = IF g.pc = "done" /\ g.doc
                    THEN save_document(db, Unwrap(fst.url), BodyOf(Unwrap(fst.url)))
                    ELSE db
    /\ UNCHANGED <<websites, run, index, index1, visited, crawl_stack, handles, main,
                   gets, crawled, hist, passed, answer, locks, downloads>>

FetchNext ==
    \/ \E url \in Ids, fails \in 0..MaxFails, readable \in BOOLEAN :
          FetchCall(url, fails, readable)
    \/ FetchAdvance

FetchSpec == Init /\ [][FetchNext]_vars

\* The sends of a log, and those before position j.
Gets(log) == Cardinality({j \in 1..Len(log) : log[j] = Get})
GetsBefore(log, j) == Cardinality({k \in 1..(j - 1) : log[k] = Get})

(***************************************************************************)
(* The Index on its own: calls of its public methods, one after the other  *)
(* (concurrent callers hold the Index's mutex for the whole call).         *)
(***************************************************************************)
\* The documents and the texts the calls are made with.
IndexDocs == {A0, AX}
TextPool == { <<"a", "b", "c">>, <<"c", "a">>, <<"A", "a">> }
\* The arguments of the direct calls of insert_unigram and insert_ngram.
DirectWords == {"d"}
DirectNgrams == { <<"d", "a">> }
DirectCodes == {0, 1}

\* index.rs:65-79: index_texts(document_id, texts)
IndexTextsCall(document_id, texts) ==
    /\ \E order \in Orders(texts) : index' = index_texts(index, document_id, order)
    /\ passed' = passed \cup {<<document_id, n>> : n \in texts}
    /\ UNCHANGED <<answer, locks, downloads>>
    /\ UNCHANGED <<websites, run, db, index1, visited, crawl_stack, handles, main,
                   gets, crawled, hist, fst>>

\* index.rs:81-91: insert_unigram(unigram, document_code), called directly
InsertUnigramCall(unigram, document_code) ==
    /\ index' = insert_unigram(index, unigram, document_code)
    /\ UNCHANGED <<websites, run, db, index1, visited, crawl_stack, handles, main,
                   gets, crawled, hist, fst, passed, answer, locks, downloads>>

\* index.rs:93-109: insert_ngram(ngram, document_code), called directly
InsertNgramCall(ngram, document_code) ==
    /\ index' = insert_ngram(index, ngram, document_code)
    /\ UNCHANGED <<websites, run, db, index1, visited, crawl_stack, handles, main,
                   gets, crawled, hist, fst, passed, answer, locks, downloads>>

IndexNext ==
    \E document_id \in IndexDocs, texts \in (SUBSET TextPool) \ {{}} :
        IndexTextsCall(document_id, texts)

\* Calls of index_texts only.
IndexSpec == Init /\ [][IndexNext]_vars

IndexOpsNext ==
    \/ IndexNext
    \/ \E unigram \in DirectWords, document_code \in DirectCodes :
          InsertUnigramCall(unigram, document_code)
    \/ \E ngram \in DirectNgrams, document_code \in DirectCodes :
          InsertNgramCall(ngram, document_code)

\* Calls of index_texts, insert_unigram and insert_ngram.
IndexOpsSpec == Init /\ [][IndexOpsNext]_vars

(***************************************************************************)
(* Extraction followed by indexing, as build_index does for each page.     *)
(***************************************************************************)
\* Two paragraphs with a line break between them, two paragraphs with
\* nothing between them, and a single paragraph.
Paragraphs ==
    [anchors |-> <<>>,
     root |-> El("div", <<El("p", <<Text("Great Fire")>>), Text("\n"),
                          El("p", <<Text("of London")>>)>>)]
Touching ==
    [anchors |-> <<>>,
     root |-> El("div", <<El("p", <<Text("great")>>), El("p", <<Text("fire")>>)>>)]
Single ==
    [anchors |-> <<>>, root |-> El("p", <<Text("London Bridge")>>)]
Documents == {Paragraphs, Touching, Single}

\* index.rs:44-45 (main.rs:173-174): the page's texts are extracted and
\* handed to index_texts.
ExtractAndIndex(document_id, document) ==
    LET texts == Unwrap(extract_texts(Some(document)))
    IN  /\ \E order \in Orders(texts) : index' = index_texts(index, document_id, order)
        /\ passed' = passed \cup {<<document_id, n>> : n \in texts}
        /\ UNCHANGED <<answer, locks, downloads>>
        /\ UNCHANGED <<websites, run, db, index1, visited, crawl_stack, handles, main,
                       gets, crawled, hist, fst>>

ExtractNext ==
    \E document_id \in IndexDocs, document \in Documents :
        ExtractAndIndex(document_id, document)

ExtractSpec == Init /\ [][ExtractNext]_vars

(***************************************************************************)
(* The store on its own: calls of save_texts, one after the other.         *)
(***************************************************************************)
\* database.rs:46-61: save_texts(db, document_id, texts)
SaveTextsCall(document_id, texts) ==
    /\ \E bytes \in serialize(texts) : db' = save_texts(db, document_id, bytes)
    /\ UNCHANGED <<websites, run, index, index1, visited, crawl_stack, handles, main,
                   gets, crawled, hist, fst, passed, answer, locks, downloads>>

StoreNext ==
    \E document_id \in IndexDocs, texts \in SUBSET TextPool :
        SaveTextsCall(document_id, texts)

StoreSpec == Init /\ [][StoreNext]_vars

\* index.rs:111-116
unigram_match(idx, unigram) ==
    IF unigram \notin DOMAIN idx.word_codes THEN None
    ELSE LET code == idx.word_codes[unigram]
         IN  IF code \in DOMAIN idx.unigrams
             THEN Some(PageResults(idx, idx.unigrams[code]))
             ELSE None

\* index.rs:118-131, for a bigram
ngram_match(idx, ngram) ==
    IF \E i \in 1..Len(ngram) : ngram[i] \notin DOMAIN idx.word_codes THEN None
    ELSE LET ngram_codes == [i \in 1..Len(ngram) |-> idx.word_codes[ngram[i]]]
         IN  IF ngram_codes \in DOMAIN idx.ngrams
             THEN Some(PageResults(idx, idx.ngrams[ngram_codes]))
             ELSE None

\* The set of a result, the empty set when there is none.
Matched(o) == IF o = None THEN {} ELSE Unwrap(o)

\* index.rs:152-157
exact_ngram_match(idx, ngram) ==
    IF Len(ngram) = 1 THEN unigram_match(idx, ngram[1]) ELSE ngram_match(idx, ngram)

(***************************************************************************)
(* query.rs: query(query_str, index).  The query string is parsed by the   *)
(* regex QUERY_PARSER: an optional quoted group EXACT (any characters      *)
(* between two quotes, then any whitespace) and an optional group UNIGRAMS *)
(* (one character or more).  A dot of the regex matches every character    *)
(* but the line feed.                                                      *)
(***************************************************************************)
Quote == "\""

\* What .* can match at most: the characters before the first line feed.
RECURSIVE Line(_)
Line(s) == IF s = "" \/ Head(s) = "\n" THEN "" ELSE Head(s) \o Line(Tail(s))

\* What \s* matches: the string without its leading whitespace is left.
RECURSIVE SkipWhitespace(_)
SkipWhitespace(s) ==
    IF s # "" /\ Head(s) \in Whitespace THEN SkipWhitespace(Tail(s)) ELSE s

\* The position of the last quote of s, 0 when it has none.
LastQuote(s) ==
    LET at == {i \in 1..Len(s) : SubSeq(s, i, i) = Quote}
    IN  IF at = {} THEN 0 ELSE CHOOSE i \in at : \A j \in at : j <= i

\* query.rs:14-18: the EXACT group is taken when the string starts with a
\* quote and its first line has another one: it is what lies between the
\* first quote and the last one of that line (.* is greedy); UNIGRAMS is
\* the rest of the line the match has come to, when there is one.
Captures(query_str) ==
    LET line == Line(query_str)
        close == IF line # "" /\ Head(line) = Quote THEN LastQuote(Tail(line)) ELSE 0
        rest == SkipWhitespace(SubSeq(query_str, close + 2, Len(query_str)))
    IN  IF close > 0
        THEN [EXACT |-> Some(SubSeq(line, 2, close)),
              UNIGRAMS |-> IF Line(rest) = "" THEN None ELSE Some(Line(rest))]
        ELSE [EXACT |-> None,
              UNIGRAMS |-> IF line = "" THEN None ELSE Some(line)]

\* A stand-in for QueryTokens: the tokens as they were typed.
QueryTokensAsTyped(s) == split_whitespace(s)
\* query.rs:23-28, 34-39: the tokens of a captured group, in lower case
QueryTokens(s) == canonicalize_ngram(split_whitespace(s))

\* query.rs:19-42
ParseQuery(query_str) ==
    LET captures == Captures(query_str)
    IN  [exact_ngram |-> IF captures.EXACT = None THEN None
                         ELSE Some(QueryTokens(Unwrap(captures.EXACT))),
         unigrams |-> IF captures.UNIGRAMS = None THEN None
                      ELSE Some(QueryTokens(Unwrap(captures.UNIGRAMS)))]

\* A stand-in for Collapse: the quoted token is put before the unigrams.
CollapseInFront(query) ==
    IF query.exact_ngram # None /\ Len(Unwrap(query.exact_ngram)) = 1
    THEN [exact_ngram |-> None,
          unigrams |-> IF query.unigrams # None
                       THEN Some(Unwrap(query.exact_ngram) \o Unwrap(query.unigrams))
                       ELSE Some(Unwrap(query.exact_ngram))]
    ELSE query
\* query.rs:44-57: a quoted phrase of one token becomes one more unigram,
\* pushed after the unigrams there are.
Collapse(query) ==
    IF query.exact_ngram # None /\ Len(Unwrap(query.exact_ngram)) = 1
    THEN [exact_ngram |-> None,
          unigrams |-> IF query.unigrams # None
                       THEN Some(Append(Unwrap(query.unigrams), Unwrap(query.exact_ngram)[1]))
                       ELSE Some(<<Unwrap(query.exact_ngram)[1]>>)]
    ELSE query

\* query.rs:75-85: every further unigram's results are intersected with
\* the result set; an unknown unigram clears it.
RECURSIVE IntersectUnigrams(_, _, _)
IntersectUnigrams(idx, unigrams, unigram_result_set) ==
    IF unigrams = <<>> THEN unigram_result_set
    ELSE LET results == unigram_match(idx, Head(unigrams))
         IN  IntersectUnigrams(idx, Tail(unigrams),
                               IF results = None THEN {}
                               ELSE unigram_result_set \cap Unwrap(results))

\* query.rs:97-107: the same for every further bigram of the phrase.
RECURSIVE IntersectBigrams(_, _, _)
IntersectBigrams(idx, bigrams, ngram_result_set) ==
    IF bigrams = <<>> THEN ngram_result_set
    ELSE LET result == ngram_match(idx, Head(bigrams))
         IN  IntersectBigrams(idx, Tail(bigrams),
                              IF result = None THEN {}
                              ELSE ngram_result_set \cap Unwrap(result))

\* slice::windows(2)
Windows2(ngram) == [i \in 1..(Len(ngram) - 1) |-> <<ngram[i], ngram[i + 1]>>]

\* A stand-in for exact_results: the phrase looked up as one n-gram, as
\* main.rs:495-498 does.
ExactWholeNgram(idx, ngram) ==
    Some(Matched(exact_ngram_match(idx, ngram)))
\* query.rs:88-110, for a phrase with two tokens or more: the results of
\* the first bigram, none when it is unknown, intersected with the others'.
exact_results(idx, ngram) ==
    LET iter == Windows2(ngram)
        first == ngram_match(idx, Head(iter))
    IN  Some(IntersectBigrams(idx, Tail(iter), IF first = None THEN {} ELSE Unwrap(first)))

\* What a call of query comes to: a returned value, or a panic at a place.
Returns(value) == [panic |-> "", value |-> value]
QueryPanics(at) == [panic |-> at, value |-> None]

\* query.rs:12-130
query(query_str, idx) ==
    LET q == Collapse(ParseQuery(query_str))
        unigrams == Unwrap(q.unigrams)
        ngram == Unwrap(q.exact_ngram)
        first == unigram_match(idx, Head(unigrams))
        unigram_result_set ==
            IF q.unigrams = None THEN {}
            ELSE IntersectUnigrams(idx, Tail(unigrams), Unwrap(first))
    IN  IF q.unigrams # None /\ unigrams = <<>> THEN QueryPanics("query.rs:66")
        ELSE IF q.unigrams # None /\ first = None THEN Returns(None)
        ELSE IF q.exact_ngram # None /\ Windows2(ngram) = <<>> THEN QueryPanics("query.rs:93")
        ELSE IF q.exact_ngram # None /\ q.unigrams = None THEN Returns(exact_results(idx, ngram))
        ELSE IF q.exact_ngram = None /\ q.unigrams # None THEN Returns(Some(unigram_result_set))
        ELSE IF q.exact_ngram = None /\ q.unigrams = None THEN Returns(None)
        ELSE Returns(Some(unigram_result_set \cap Unwrap(exact_results(idx, ngram))))

(***************************************************************************)
(* The query loop (main.rs:204-206, 257-267) around the library's query:   *)
(* the index is built, then lines are read and answered one after the      *)
(* other.                                                                  *)
(***************************************************************************)
\* The longest line typed character by character.
MaxRaw == 3
RawChars == {Quote, " ", "\n", "a"}
RECURSIVE Raw(_)
Raw(n) ==
    IF n = 0 THEN {""}
    ELSE Raw(n - 1) \cup {s \o c : s \in Raw(n - 1), c \in RawChars}

\* Lists of bare tokens and quoted phrases, in either case.
BareWords == {"a", "A", "c", "x"}
Bares == {<<w>> : w \in BareWords} \cup {<<v, w>> : v, w \in BareWords}
Phrases ==
    { <<"a">>, <<"A">>, <<"x">>, <<"a", "b">>, <<"A", "b">>, <<"c", "a">>, <<"b", "x">>,
      <<"c", "a", "b">>, <<"C", "a", "B">>, <<"a", "b", "c">> }

\* The tokens with a space between them, and in quotes.
RECURSIVE JoinWords(_)
JoinWords(tokens) ==
    IF tokens = <<>> THEN ""
    ELSE IF Len(tokens) = 1 THEN tokens[1]
    ELSE Head(tokens) \o " " \o JoinWords(Tail(tokens))
Quoted(tokens) == Quote \o JoinWords(tokens) \o Quote

Queries ==
    Raw(MaxRaw)
    \cup {JoinWords(t) : t \in Bares}
    \cup {Quoted(p) : p \in Phrases}
    \cup {Quoted(p) \o " " \o JoinWords(t) : p \in Phrases, t \in Bares}

\* main.rs:262-264: a line is read and query is called with it.
QueryCall(query_str) ==
    /\ answer = None
    /\ answer' = Some([query_str |-> query_str, result |-> query(query_str, index)])
    /\ UNCHANGED <<websites, run, db, index, index1, visited, crawl_stack, handles, main,
                   gets, crawled, hist, fst, passed, locks, downloads>>

\* main.rs:204-206: the answer is printed and the loop asks again.
NextLine ==
    /\ answer # None
    /\ answer' = None
    /\ UNCHANGED <<websites, run, db, index, index1, visited, crawl_stack, handles, main,
                   gets, crawled, hist, fst, passed, locks, downloads>>

QueryNext ==
    \/ answer = None /\ IndexNext
    \/ \E query_str \in Queries : QueryCall(query_str)
    \/ NextLine

\* The configuration does not matter to the queries: one is taken.
QueryInit == Init /\ websites = <<Website(A0, TRUE)>>

QuerySpec == QueryInit /\ [][QueryNext]_vars

(***************************************************************************)
(* Properties.                                                             *)
(***************************************************************************)
Seeds == {websites[i].url : i \in 1..Len(websites)}

\* C1: every URL in Index.document_codes has the origin (scheme, host, port)
\* of a configured website, whatever the fetched pages link to.
C1_SameOrigin ==
    \A d \in DOMAIN index.document_codes :
        \E seed \in Seeds : Origin(d) = Origin(seed)

\* The run has returned after a task took the cross-origin page the
\* protocol-relative link leads to through the visited set and save_texts,
\* and the page is not in the Index.
C1_CrossOriginMet ==
    /\ main.pc = "returned"
    /\ BZ \in visited
    /\ hist[BZ].save = 1
    /\ DOMAIN index.document_codes # {}
    /\ BZ \notin DOMAIN index.document_codes

\* A task that may still push onto the frontier.
CanStillPush(t) ==
    /\ t.pc \in {"insert", "save", "push"}
    /\ SameOrigin(VisitedUrl(t.id), t.url)
    /\ t.pc = "insert" => VisitedUrl(t.id) \notin visited

\* C2: the main loop is left only with the frontier empty and no task in
\* flight that can still push; when build_index has returned, every entry
\* that was pushed has been popped.
C2_LoopExitsDrained ==
    main.pc \in {"join", "returned"} =>
        /\ crawl_stack = <<>>
        /\ \A i \in 1..Len(handles) : ~CanStillPush(handles[i])

RECURSIVE SumCrawled(_)
SumCrawled(S) ==
    IF S = {} THEN 0
    ELSE LET u == CHOOSE x \in S : TRUE IN crawled[u] + SumCrawled(S \ {u})

\* C3: each canonical URL, the configured websites included, is popped and
\* crawled as a root at most once in a run.
C3_CrawledOnce ==
    \A c \in CanonIds : SumCrawled({u \in Ids : StripQueryFragment(u) = c}) <= 1

\* C4: the crawl never comes to a halt before build_index has returned.
C4_CrawlTerminates == main.pc = "returned" \/ ENABLED Next

\* C5: for each canonical URL at most one task sees insert return true, and
\* save_texts, the push and index_texts happen at most once for it in a run.
C5_InsertOnce ==
    \A u \in CanonIds :
        /\ hist[u].insert <= 1
        /\ hist[u].save <= 1
        /\ hist[u].push <= 1
        /\ hist[u].index <= 1

\* Two tasks inserted the same canonical URL: one saw true and went on to
\* index the document, the other saw false.
C5_RaceDecided ==
    \E u \in CanonIds : hist[u].insert = 1 /\ hist[u].dup >= 1 /\ hist[u].index = 1

\* The step is a fetch of u that ends in save_document(u, body).
SavedDocument(u) ==
    \/ /\ main.pc = "root_net"
       /\ main.root = Some(u)
       /\ main'.pc = "links"
    \/ \E i \in 1..Len(main.lhandles) :
          /\ main.lhandles[i].pc = "net"
          /\ main.lhandles[i].url = u
          /\ i <= Len(main'.lhandles)
          /\ main'.lhandles[i].pc = "done"
          /\ main'.lhandles[i].texts # None

\* C6: save_document changes only the body: texts the row held before the
\* call are what read_texts returns after it.
C6_SaveBodyKeepsTexts ==
    [][\A u \in Ids :
          (SavedDocument(u) /\ read_texts(db, u) # None)
              => read_texts(db', u) = read_texts(db, u)]_vars

\* C7: a run over the store a complete run left sends no HTTP GET.
C7_SecondRunNoGet == run >= 2 => gets = {}

\* C8: the Index a second run returns answers as the first run's Index did:
\* the same documents, the same URLs for every word and every bigram.
C8_SecondRunSameIndex ==
    (run = 2 /\ main.pc = "returned") => Answers(index) = Unwrap(index1)

\* C9: one call of fetch sends at most 4 HTTP GETs.
C9_AtMostFourGets == Gets(fst.f.log) <= 4

\* C10: the send after the n-th failed send comes right after a sleep of
\* n x 512 ms, and fetch sleeps nowhere else.
C10_LinearBackoff ==
    LET log == fst.f.log IN
    \A j \in 1..Len(log) :
        /\ (log[j] = Get /\ j > 1) => log[j - 1] = Sleep(GetsBefore(log, j) * 512)
        /\ log[j] # Get =>
              /\ GetsBefore(log, j) >= 1
              /\ log[j] = Sleep(GetsBefore(log, j) * 512)
              /\ j < Len(log) /\ log[j + 1] = Get

\* A fetch got its response on the last retry the loop makes.
C10_RetriedToTheEnd ==
    /\ fst.f.pc = "done"
    /\ fst.f.doc
    /\ fst.f.attempt = 4
    /\ Gets(fst.f.log) = 5

\* C11: fetch never panics: it returns a document or None, also when the body
\* of a response cannot be read.
C11_FetchNeverPanics == fst.f.pc # "panicked"

\* C12: a crawl whose root fetch yields no document returns normally: the
\* main task never panics on the root document it did not get.
C12_EmptyRootReturns == ~(main.pc = "panicked" /\ main.panic = "main.rs:281")

\* C13: no failure of a store operation ends the main task, a link's fetch
\* or a spawned task: each goes on as if the row were absent.
C13_StoreFailureNotFatal ==
    /\ main.panic \notin StorePanics
    /\ \A i \in 1..Len(main.lhandles) : main.lhandles[i].panic \notin StorePanics
    /\ \A i \in 1..Len(handles) : handles[i].pc # "panicked"

\* Without query and fragment.
IsCanonical(u) == u.query = "" /\ u.fragment = ""

\* C14: every URL in the visited set, every URL in Index.document_codes and
\* every key the store holds texts under is canonical, for configured
\* websites given with a query or a fragment too.
C14_CanonicalKeys ==
    /\ \A u \in visited : IsCanonical(u)
    /\ \A d \in DOMAIN index.document_codes : IsCanonical(d)
    /\ \A id \in Ids : read_texts(db, id) # None => IsCanonical(id)

\* C15: every link extract_links_same_domain returned for the root of the
\* crawl has the root's origin and another path than the root.
C15_LinksSameOriginOtherPath ==
    main.pc \in {"links", "link_texts"} =>
        \A j \in 1..Len(main.urls) :
            /\ Origin(main.urls[j]) = Origin(Unwrap(main.root))
            /\ main.urls[j].path # Unwrap(main.root).path

\* C16: the visited scope is per configured website: a task's insert returns
\* false only for a URL a task of the same website's subtree inserted.
C16_PerSeedVisited ==
    \A u \in CanonIds : hist[u].stale \subseteq hist[u].fresh

\* C17: a discovered URL is pushed only by the task of an entry whose
\* recursive flag is true.
C17_PushOnlyWhenRecursive ==
    \A u \in CanonIds : FALSE \notin hist[u].pushflags

\* The codes of a map, and a map that is one-to-one onto 0 .. n-1.
Codes(m) == {m[k] : k \in DOMAIN m}
DenseBijection(m) ==
    /\ \A k1, k2 \in DOMAIN m : m[k1] = m[k2] => k1 = k2
    /\ Codes(m) = 0..(BiLen(m) - 1)
\* Every string of m is in n with the code it has in m.
CodesKept(m, n) == \A k \in DOMAIN m : k \in DOMAIN n /\ n[k] = m[k]

\* C18: after every call word_codes and document_codes are one-to-one onto
\* 0 .. n-1, and every string that had a code before the call has the same
\* code after it.
C18_CodesDenseAndKept ==
    [][/\ DenseBijection(index'.word_codes)
       /\ DenseBijection(index'.document_codes)
       /\ CodesKept(index.word_codes, index'.word_codes)
       /\ CodesKept(index.document_codes, index'.document_codes)]_vars

\* Both documents are indexed, a word is shared by them, and a direct
\* insert_ngram has given a code to a word no document holds.
C18_SharedAndDirectWords ==
    /\ DOMAIN index.document_codes = IndexDocs
    /\ {"a", "b", "c", "d"} \subseteq DOMAIN index.word_codes
    /\ index.word_codes["d"] < index.word_codes["c"]
    /\ \E c \in DOMAIN index.unigrams : Cardinality(index.unigrams[c]) = 2

\* C19: every word code that is a key of unigrams or in a key of ngrams is a
\* code of word_codes, and every document code of a posting is a code of
\* document_codes.
C19_PostingsClosed ==
    /\ \A c \in DOMAIN index.unigrams :
          /\ c \in Codes(index.word_codes)
          /\ index.unigrams[c] \subseteq Codes(index.document_codes)
    /\ \A g \in DOMAIN index.ngrams :
          /\ \A i \in 1..Len(g) : g[i] \in Codes(index.word_codes)
          /\ index.ngrams[g] \subseteq Codes(index.document_codes)

\* Two documents are indexed and a unigram and a bigram posting hold both.
C19_TwoDocumentsPosted ==
    /\ BiLen(index.document_codes) = 2
    /\ \E c \in DOMAIN index.unigrams : Cardinality(index.unigrams[c]) = 2
    /\ \E g \in DOMAIN index.ngrams : Cardinality(index.ngrams[g]) = 2

\* The tokens of a text and its pairs of adjacent tokens.
Tokens(n) == {n[i] : i \in 1..Len(n)}
Adjacent(n) == { <<n[i], n[i + 1]>> : i \in 1..(Len(n) - 1) }
\* Every word a call can hold.
Words == UNION {Tokens(n) : n \in TextPool}

\* C20: a URL is in the posting of a word exactly when some text passed to
\* index_texts for the URL has the word as a token, and in the posting of a
\* bigram exactly when some text passed for the URL has the two words next to
\* each other in that order.
C20_PostingsExact ==
    \A d \in IndexDocs :
        /\ \A w \in Words :
              d \in Matched(unigram_match(index, w))
                  <=> \E p \in passed : p[1] = d /\ w \in Tokens(p[2])
        /\ \A a \in Words, b \in Words :
              d \in Matched(ngram_match(index, <<a, b>>))
                  <=> \E p \in passed : p[1] = d /\ <<a, b>> \in Adjacent(p[2])

\* One document was given a text of three tokens, the other a text that
\* shares a word with it: the first alone is under the bigram of the
\* neighbours, none is under the bigram of the first and the third token.
C20_NeighboursOnly ==
    /\ <<A0, <<"a", "b", "c">> >> \in passed
    /\ <<AX, <<"c", "a">> >> \in passed
    /\ Matched(unigram_match(index, "a")) = {A0, AX}
    /\ Matched(ngram_match(index, <<"a", "b">>)) = {A0}
    /\ Matched(ngram_match(index, <<"a", "c">>)) = {}

(***************************************************************************)
(* C21.  A page of separate sibling elements: extraction followed by       *)
(* index_texts never posts a bigram made of the last token of one element  *)
(* and the first token of the next element.                                *)
(***************************************************************************)
NodeTokens(node) == canonicalize_ngram(split_whitespace(NodeText(node)))

\* The pairs (last token of an element, first token of its next sibling
\* element), nothing but whitespace between the two, anywhere below node.
RECURSIVE CrossBigrams(_)
CrossBigrams(node) ==
    LET c == node.children
        element(i) == c[i].kind = "el" /\ has_search_terms(NodeText(c[i]))
        next(i, j) ==
            /\ i < j /\ element(i) /\ element(j)
            /\ \A k \in (i + 1)..(j - 1) : ~has_search_terms(NodeText(c[k]))
    IN  { <<NodeTokens(c[i])[Len(NodeTokens(c[i]))], NodeTokens(c[j])[1]>> :
              <<i, j>> \in {ij \in (1..Len(c)) \X (1..Len(c)) : next(ij[1], ij[2])} }
        \cup UNION {CrossBigrams(c[i]) : i \in 1..Len(c)}

\* The bigrams inside one text node of a document.
InnerBigrams(document) ==
    UNION { Adjacent(NodeTokens(n)) : n \in {m \in FindAny(document.root) : m.kind = "text"} }

C21_NoCrossElementBigram ==
    \A document \in Documents :
        \A ngram \in CrossBigrams(document.root) \ UNION {InnerBigrams(d) : d \in Documents} :
            Matched(ngram_match(index, ngram)) = {}

(***************************************************************************)
(* C22.  The Index normalizes tokens to lowercase at insertion: after      *)
(* index_texts, whatever the case of the tokens passed, every word stored  *)
(* in word_codes is lowercase.                                             *)
(***************************************************************************)
C22_StoredWordsLowercase ==
    \A word \in DOMAIN index.word_codes : word = to_lowercase(word)

(***************************************************************************)
(* Queries.  Asked is the line answered last, Result what query came to.   *)
(***************************************************************************)
Asked == Unwrap(answer).query_str
Result == Unwrap(answer).result

\* The documents posted for a word and for a pair of words, whatever their
\* case in the query.
Postings(w) == Matched(unigram_match(index, to_lowercase(w)))
BigramPostings(b) == Matched(ngram_match(index, canonicalize_ngram(b)))
\* The documents that hold every token of a list, every bigram of a phrase.
HoldAll(t) == {d \in IndexDocs : \A i \in 1..Len(t) : d \in Postings(t[i])}
HoldPhrase(p) == {d \in IndexDocs : \A b \in Adjacent(p) : d \in BigramPostings(b)}

\* C23: a query of bare tokens returns the intersection of the tokens'
\* posting sets, the empty set when a token, the first included, is unknown
\* to the index.
C23_UnigramAnd ==
    answer # None =>
        \A t \in Bares : Asked = JoinWords(t) => Result = Returns(Some(HoldAll(t)))

\* C24: a quoted phrase of two tokens or more returns the intersection of
\* the posting sets of all its adjacent bigrams, the empty set when one of
\* them is unknown.
C24_PhraseIsBigramIntersection ==
    answer # None =>
        \A p \in Phrases :
            Len(p) >= 2 /\ Asked = Quoted(p) => Result = Returns(Some(HoldPhrase(p)))

\* A document that holds (c, a) and (a, b) in separate texts, and no text
\* with c a b, is returned for the phrase c a b.
C24_SeparateTextsMatch ==
    /\ answer # None
    /\ Asked = Quoted(<<"c", "a", "b">>)
    /\ A0 \in Matched(Result.value)
    /\ \A t \in passed : t[1] = A0 => t[2] \in { <<"c", "a">>, <<"a", "b", "c">> }

\* The sequences of one to three words.
Sequences3 ==
    {<<u>> : u \in Words} \cup {<<u, v>> : u, v \in Words}
        \cup {<<u, v, w>> : u, v, w \in Words}

\* C25: exact_ngram_match gives the result of unigram_match for one word,
\* of ngram_match for two, and for three words or more the documents in the
\* postings of every adjacent bigram.
C25_ExactNgramMatch ==
    \A ngram \in Sequences3 :
        IF Len(ngram) = 1
        THEN exact_ngram_match(index, ngram) = unigram_match(index, ngram[1])
        ELSE IF Len(ngram) = 2
        THEN exact_ngram_match(index, ngram) = ngram_match(index, ngram)
        ELSE Matched(exact_ngram_match(index, ngram))
                 = {d \in IndexDocs :
                        \A b \in Adjacent(ngram) : d \in Matched(ngram_match(index, b))}

\* C26: a quoted phrase of two tokens or more with bare tokens after it
\* returns the intersection of the phrase's result set and the unigram AND
\* result set.
C26_CombinedIsIntersection ==
    answer # None =>
        \A p \in Phrases, t \in Bares :
            Len(p) >= 2 /\ Asked = Quoted(p) \o " " \o JoinWords(t)
                => Result = Returns(Some(HoldPhrase(p) \cap HoldAll(t)))

\* The lines with nothing to search for: empty or whitespace only, and a
\* quoted phrase that is empty or whitespace only.
BlankLines ==
    {s \in Raw(MaxRaw) : ~has_search_terms(s)}
        \cup {Quote \o s \o Quote : s \in {r \in Raw(1) : Line(r) = r /\ ~has_search_terms(r)}}

\* C27: query never fails, and returns the no-result value for a line with
\* nothing to search for.
C27_QueryNeverFails ==
    answer # None =>
        /\ Result.panic = ""
        /\ Asked \in BlankLines => Result = Returns(None)

\* The queries that differ from a query in letter case only.
CaseVariants ==
    [q \in Queries |-> {r \in Queries : to_lowercase(r) = to_lowercase(q)}]

\* C28: on an index of lowercase words, two query strings that differ in
\* letter case only get the same result.
C28_CaseInsensitive ==
    answer # None /\ C22_StoredWordsLowercase =>
        \A q \in CaseVariants[Asked] : query(q, index) = Result

\* The phrase C a B is answered with a document, as c a b is.
C28_UpperCasePhraseMatches ==
    /\ answer # None
    /\ C22_StoredWordsLowercase
    /\ Asked = Quoted(<<"C", "a", "B">>)
    /\ Quoted(<<"c", "a", "b">>) \in CaseVariants[Asked]
    /\ Matched(Result.value) # {}

\* C29: a quoted phrase of one token w gets the result of the query w, and
\* with the bare tokens t after it the result of the query t w.
C29_SingleTokenPhraseCollapses ==
    answer # None =>
        \A p \in Phrases :
            Len(p) = 1 =>
                /\ Asked = Quoted(p) => Result = query(p[1], index)
                /\ \A t \in Bares :
                       Asked = Quoted(p) \o " " \o JoinWords(t)
                           => Result = query(JoinWords(Append(t, p[1])), index)

\* The quoted word is unknown and the bare word after it is posted: the
\* result is the empty set.
C29_UnknownQuotedAfterKnown ==
    /\ answer # None
    /\ Asked = Quoted(<<"x">>) \o " " \o "a"
    /\ Postings("a") # {}
    /\ Result = Returns(Some({}))

(***************************************************************************)
(* C30.  Two save_texts calls with equal sets of token sequences store     *)
(* identical bytes in extracted_text.                                      *)
(***************************************************************************)
C30_EqualSetsEqualBytes ==
    \A u, v \in IndexDocs :
        (/\ read_texts(db, u) # None
         /\ read_texts(db, u) = read_texts(db, v))
            => db[u].texts = db[v].texts

(***************************************************************************)
(* C31.  Politeness throttle: a link whose texts are not in the cache is   *)
(* fetched only after a sleep of 64 ms; for a link whose texts are in the  *)
(* cache there is no sleep and no fetch, and the cached texts are what its *)
(* task returns.                                                           *)
(***************************************************************************)
C31_ThrottleBeforeFetch ==
    [][/\ \A i \in 1..Len(main'.lhandles) :
             main'.lhandles[i].fetched => main'.lhandles[i].slept = 64
       /\ (main.pc = "link_texts" /\ main'.pc = "links") =>
             LET l == Head(main.urls)
                 task == main'.lhandles[Len(main'.lhandles)]
             IN  /\ Len(main'.lhandles) = Len(main.lhandles) + 1
                 /\ task.url = l
                 /\ IF read_texts(db, l) = None
                    THEN task.slept = 64 /\ task.pc = "read"
                    ELSE /\ task.slept = 0
                         /\ task.pc = "done"
                         /\ task.texts = read_texts(db, l)
       /\ \A i \in 1..Len(main.lhandles) :
             (main.pc \notin {"pop", "panicked"} /\ main'.pc \notin {"pop", "panicked"}
              /\ main.lhandles[i].slept = 0)
                 => main'.lhandles[i] = main.lhandles[i]]_vars

\* One crawl has a link served from cached texts and a link it slept for
\* and fetched.
C31_HitAndThrottledMiss ==
    /\ \E i \in 1..Len(main.lhandles) :
          /\ main.lhandles[i].slept = 0
          /\ main.lhandles[i].texts # None
    /\ \E j \in 1..Len(main.lhandles) :
          /\ main.lhandles[j].slept = 64
          /\ main.lhandles[j].fetched

(***************************************************************************)
(* C32.  Neither a crawl task nor the main loop holds two of the mutexes   *)
(* (frontier stack, visited set, Index) at the same time, and nobody waits *)
(* for a mutex whose holder waits for a mutex itself.                      *)
(***************************************************************************)
C32_OneLockAtATime ==
    /\ \A who \in 0..Len(handles) : Cardinality(HeldBy(who)) <= 1
    /\ \A who \in 0..Len(handles) :
          (AtLock(who) /\ locks[Needs(who)] # Free) => ~AtLock(locks[Needs(who)])

\* A task waits for the frontier while the main loop holds it, and another
\* task holds the Index.
C32_ContendedLocks ==
    /\ locks["crawl_stack"] = MainLoop
    /\ \E i \in 1..Len(handles) : handles[i].pc = "push"
    /\ \E j \in 1..Len(handles) : locks["index"] = j

(***************************************************************************)
(* C33.  In a run that starts from an empty store each URL is downloaded   *)
(* and saved at most once: once fetch has saved a body for a URL, every    *)
(* later fetch of the URL in the run is served from the store.             *)
(***************************************************************************)
\* fetch downloads u and saves its body in this step: save_document is the
\* one statement that writes a body, and fetch calls it after a download
\* only.
DownloadsNow(u) == db'[u] # db[u] /\ db'[u].body # None

C33_DownloadedOnce ==
    [][\A u \in downloads.saved : ~DownloadsNow(u)]_vars

(***************************************************************************)
(* C34.  Crawl coverage: when build_index returns and no fetch has failed, *)
(* every page that a chain of same-origin links with allowed endings leads *)
(* to from a configured website is in Index.document_codes.                *)
(***************************************************************************)
\* The pages the links of a page lead to within its origin.
LinkedPages(u) ==
    LET links == extract_links_same_domain(u, DocumentFrom(BodyOf(u)))
    IN  {links[i] : i \in {j \in 1..Len(links) :
                              /\ Origin(links[j]) = Origin(u)
                              /\ link_looks_interesting(links[j])
                              /\ links[j] \in DOMAIN Pages}}

RECURSIVE ReachableFrom(_)
ReachableFrom(S) ==
    LET more == S \cup UNION {LinkedPages(u) : u \in S}
    IN  IF more = S THEN S ELSE ReachableFrom(more)

\* The page is indexed, under its URL or under one that differs in query
\* or fragment only.
Indexed(page) ==
    \E d \in DOMAIN index.document_codes : StripQueryFragment(d) = page

C34_ReachablePagesIndexed ==
    (main.pc = "returned" /\ ~downloads.failed) =>
        \A page \in ReachableFrom({StripQueryFragment(s) : s \in Seeds}) : Indexed(page)

====
